---- MODULE Spec2Model ----
(***************************************************************************)
(* Playback session controller of streambot (src/app/main.py), one guild.  *)
(*                                                                         *)
(* The bot runs on one asyncio event loop.  A command or a scheduled       *)
(* coroutine runs without interruption from one await to the next, so each *)
(* action below is one such stretch: a command from its start to its first *)
(* suspending await, or the resumption of a suspended coroutine up to its  *)
(* next suspending await or its end.  The `after` callback of a player     *)
(* runs in the player's thread, some time after the player has stopped.    *)
(***************************************************************************)
EXTENDS Integers, Sequences, FiniteSets, Bags, TLC

(***************************************************************************)
(* Bounds of the model and constants of the program.                       *)
(***************************************************************************)
MaxQueue == 3
MaxTasks == 2
MaxCompletions == 1
MaxCommands == 4

RETRY_WINDOW == 10
MAX_RETRIES == 3

TickStep == RETRY_WINDOW

GUILD == "g"
UrlQueries == {"https://youtu.be/A"}
TextQueries == {"lofi"}
Queries == UrlQueries \cup TextQueries
Requesters == {"u1"}
known_radio_streams == {[name |-> "R", stream_url |-> "http://r/live"]}

\* What RadioBrowser.search can return for the tags: a list of at most
\* MaxResults stations, some of them without a resolved URL.
MaxResults == 2
Candidates ==
    {[name |-> "J1", url_resolved |-> ""],
     [name |-> "J2", url_resolved |-> "http://j2/live"],
     [name |-> "J3", url_resolved |-> "http://j3/live"]}
SearchResults == UNION {[1..n -> Candidates] : n \in 0..MaxResults}

VARIABLES
    guild_queues,         \* dict guild id -> list of {url, requester}
    guild_current_track,  \* dict guild id -> {url, title, start_time, retry_count}
    connected,            \* guild.voice_client exists and is connected
    player,               \* the AudioPlayer of the connected voice client
    completions,          \* players that ended and whose `after` has not run yet
    tasks,                \* coroutines suspended in an await, or scheduled
    presence,             \* the bot's activity name, "" when cleared
    reply,                \* the message sent to the caller in this step
    commands              \* number of commands received so far

vars == <<guild_queues, guild_current_track, connected, player, completions,
          tasks, presence, reply, commands>>

(***************************************************************************)
(* Values.                                                                 *)
(***************************************************************************)
\* time.time().  The program reads only differences of times (elapsed, line
\* 343), so times are kept relative to the present: the present is 0 and a
\* start time is 0 or negative.
now == 0

NoPlayer == [kind |-> "none", url |-> "", start |-> 0]
NoReply == [cmd |-> "", msg |-> "", n |-> 0]
EmptyDict == [g \in {} |-> 0]

\* A call that is suspended in an await, or awaits the call above it.  The
\* rank is kept for the order of starts only: the call of play_youtube_url
\* for a queue entry has rank 1 once an entry behind it was popped, and rank
\* 2 once an entry behind it was started.
Frame(fn, pc, url, retry_count) ==
    [fn |-> fn, pc |-> pc, url |-> url, retry_count |-> retry_count, started |-> FALSE,
     rank |-> 0]

Task(stack, alive) == [stack |-> stack, alive |-> alive]

Top(t) == t.stack[Len(t.stack)]
Callers(t) == SubSeq(t.stack, 1, Len(t.stack) - 1)

Suspended(fn, pc) == {t \in BagToSet(tasks) : Top(t).fn = fn /\ Top(t).pc = pc}

Spawn(B, t) == B (+) SetToBag({t})
Finish(B, t) == B (-) SetToBag({t})
Replace(B, t, stack) == Spawn(Finish(B, t), [t EXCEPT !.stack = stack])

\* The coroutine t is suspended in the resolution of an entry that
\* play_next_in_queue popped from the queue.
IsQueued(t) ==
    /\ Len(t.stack) >= 2
    /\ Top(t).fn = "play_youtube_url" /\ Top(t).pc = "from_url"
    /\ t.stack[Len(t.stack) - 1].fn = "play_next_in_queue"

Ranked(t, rank) == [t EXCEPT !.stack[Len(t.stack)].rank = rank]

\* An entry is popped: the popped entries in B still to be resolved are
\* entries that were queued before it.
Outranked(B) ==
    BagOfAll(LAMBDA u : IF IsQueued(u) /\ Top(u).rank = 0 THEN Ranked(u, 1) ELSE u, B)

\* The entry of coroutine t is started: when it is the entry popped last, the
\* popped entries in B that were queued before it have been overtaken.
Overtaken(B, t) ==
    IF IsQueued(t) /\ Top(t).rank = 0
    THEN BagOfAll(LAMBDA u : IF IsQueued(u) /\ Top(u).rank = 1 THEN Ranked(u, 2) ELSE u, B)
    ELSE B

\* The voice client object a coroutine or callback holds was disconnected.
Dead(x) == [x EXCEPT !.alive = FALSE]
KillAll(B) ==
    LET S == {Dead(x) : x \in BagToSet(B)}
    IN  [k \in S |-> CopiesIn(k, B) + CopiesIn([k EXCEPT !.alive = TRUE], B)]

Queue == IF GUILD \in DOMAIN guild_queues THEN guild_queues[GUILD] ELSE <<>>
HasTrack == GUILD \in DOMAIN guild_current_track
Playing == player.kind # "none"

player_title(url) == "title of " \o url

RadioConfig(name, stream_url) == [name |-> name, stream_url |-> stream_url]

\* The station a play_and_notify call was made for.
StationByName(name) ==
    CHOOSE s \in known_radio_streams
                  \cup {RadioConfig(r.name, r.url_resolved) : r \in Candidates} :
        s.name = name

is_url(text) == text \in UrlQueries

search_query(query) == IF is_url(query) THEN query ELSE "ytsearch:" \o query

\* A command arrives.
Received == commands < MaxCommands /\ commands' = commands + 1

\* voice_client.stop() / the player running out: the player is gone at once,
\* its `after` callback runs later in the player's thread.
Ended(p, by) ==
    [kind |-> p.kind, url |-> p.url, start |-> p.start, by |-> by,
     alive |-> by # "disconnect"]

(***************************************************************************)
(* play_next_in_queue and the propagation of returns and exceptions.       *)
(***************************************************************************)

\* play_next_in_queue called by the coroutine t whose pending frames are
\* `stack`: it runs to its first await.  With an empty queue that is the
\* await of change_presence(activity=None); otherwise the head is popped and
\* play_youtube_url is called, which suspends in YTDLSource.from_url.
play_next_in_queue(t, stack) ==
    IF Queue = <<>>
    THEN /\ tasks' = Replace(tasks, t,
                Append(stack, Frame("play_next_in_queue", "change_presence", "", 0)))
         /\ UNCHANGED guild_queues
    ELSE LET next_item == Head(Queue)
         IN  /\ guild_queues' = [guild_queues EXCEPT ![GUILD] = Tail(@)]
             /\ tasks' = Spawn(Outranked(Finish(tasks, t)),
                    [t EXCEPT !.stack =
                        stack \o <<Frame("play_next_in_queue", "play_youtube_url", "", 0),
                                   Frame("play_youtube_url", "from_url", next_item.url, 0)>>])

\* A frame returned (raised = FALSE) or raised an exception to the frames
\* of `stack` that await it.  The result is the stack left when the coroutine
\* next calls play_next_in_queue (call = TRUE), or the end of the coroutine
\* with the message its command sends.
RECURSIVE Unwind(_, _)
Unwind(stack, raised) ==
    IF stack = <<>>
    THEN [stack |-> <<>>, call |-> FALSE, reply |-> NoReply]
    ELSE LET f == stack[Len(stack)]
             rest == SubSeq(stack, 1, Len(stack) - 1)
         IN  CASE f.fn = "play_next_in_queue" /\ f.pc = "play_youtube_url" ->
                    \* try: await play_youtube_url(...)
                    \* except: await play_next_in_queue(...), the handler's last
                    \* statement, so the callee takes this frame's place
                    IF raised
                    THEN [stack |-> rest, call |-> TRUE, reply |-> NoReply]
                    ELSE Unwind(rest, FALSE)
               [] f.fn = "play_youtube_url" /\ f.pc = "play_next_in_queue" ->
                    \* except: await play_next_in_queue(...); raise
                    Unwind(rest, TRUE)
               [] f.fn = "play_yt" ->
                    [stack |-> <<>>, call |-> FALSE,
                     reply |-> [cmd |-> "play_yt",
                                msg |-> IF raised THEN "An error occurred" ELSE "Now playing",
                                n |-> 0]]
               [] OTHER -> [stack |-> <<>>, call |-> FALSE, reply |-> NoReply]

\* The top frame of coroutine t has returned or raised: the coroutine runs on
\* to its next await or to its end.
Resume(t, raised) ==
    LET u == Unwind(Callers(t), raised)
    IN  IF u.call
        THEN /\ play_next_in_queue(t, u.stack)
             /\ reply' = NoReply
        ELSE /\ tasks' = Finish(tasks, t)
             /\ reply' = u.reply
             /\ UNCHANGED guild_queues

(***************************************************************************)
(* play_youtube_url.                                                       *)
(***************************************************************************)

TrackInfo(url, retry_count) ==
    [url |-> url, title |-> player_title(url), start_time |-> now,
     retry_count |-> retry_count]

\* voice_client.play raises ClientException when the client is not connected
\* or is already playing.
CanPlay(t) == t.alive /\ ~Playing

\* YTDLSource.from_url returned, or raised, in play_youtube_url.
FromUrlReturn(t, ok) ==
    /\ UNCHANGED commands
    /\ t \in Suspended("play_youtube_url", "from_url")
    /\ IF ok
       THEN /\ guild_current_track' =
                    (GUILD :> TrackInfo(Top(t).url, Top(t).retry_count))
            /\ IF CanPlay(t)
               THEN /\ player' = [kind |-> "yt", url |-> Top(t).url, start |-> now]
                    /\ tasks' = Spawn(Overtaken(Finish(tasks, t), t),
                           [t EXCEPT !.stack = Append(Callers(t),
                               [Top(t) EXCEPT !.pc = "change_presence", !.rank = 0])])
                    /\ reply' = NoReply
                    /\ UNCHANGED guild_queues
               ELSE /\ Resume(t, TRUE)
                    /\ UNCHANGED player
       ELSE /\ play_next_in_queue(t,
                    Append(Callers(t), Frame("play_youtube_url", "play_next_in_queue", "", 0)))
            /\ reply' = NoReply
            /\ UNCHANGED <<guild_current_track, player>>
    /\ UNCHANGED <<connected, completions, presence>>

\* bot.change_presence returned, or raised, at the end of play_youtube_url.
PlayPresenceReturn(t, ok) ==
    /\ UNCHANGED commands
    /\ t \in Suspended("play_youtube_url", "change_presence")
    /\ presence' = IF ok THEN player_title(Top(t).url) ELSE presence
    /\ Resume(t, ~ok)
    /\ UNCHANGED <<guild_current_track, connected, player, completions>>

\* A scheduled play_next_in_queue starts running on the event loop.
NextInQueueStart(t) ==
    /\ UNCHANGED commands
    /\ t \in Suspended("play_next_in_queue", "start")
    /\ play_next_in_queue(t, <<>>)
    /\ reply' = NoReply
    /\ UNCHANGED <<guild_current_track, connected, player, completions, presence>>

\* bot.change_presence(activity=None) returned, or raised, in play_next_in_queue.
IdlePresenceReturn(t, ok) ==
    /\ UNCHANGED commands
    /\ t \in Suspended("play_next_in_queue", "change_presence")
    /\ presence' = IF ok THEN "" ELSE presence
    /\ Resume(t, ~ok)
    /\ UNCHANGED <<guild_current_track, connected, player, completions>>

(***************************************************************************)
(* The `after` callback of a player.                                       *)
(***************************************************************************)

ShouldRetry(track_info, current_time) ==
    LET elapsed == current_time - track_info.start_time
    IN  elapsed < RETRY_WINDOW /\ track_info.retry_count < MAX_RETRIES

\* A retry that would keep the count it found.
NextRetryUncounted(track_info) == track_info.retry_count

NextRetry(track_info) == track_info.retry_count + 1

\* What after_playing of play_youtube_url schedules on the event loop.
Scheduled(c) ==
    IF HasTrack /\ ShouldRetry(guild_current_track[GUILD], now)
    THEN Task(<<Frame("play_youtube_url", "from_url",
                      guild_current_track[GUILD].url,
                      NextRetry(guild_current_track[GUILD]))>>, c.alive)
    ELSE Task(<<Frame("play_next_in_queue", "start", "", 0)>>, c.alive)

\* The callback of an ended player runs, with the error of a player that
\* failed.  It logs the error; that of play_stream does nothing else.
AfterPlaying(c, error) ==
    /\ UNCHANGED commands
    /\ c \in BagToSet(completions)
    /\ error => c.by = "end"
    /\ completions' = Finish(completions, c)
    /\ IF c.kind = "yt"
       THEN /\ BagCardinality(tasks) < MaxTasks
            /\ tasks' = Spawn(tasks, Scheduled(c))
       ELSE UNCHANGED tasks
    /\ reply' = NoReply
    /\ UNCHANGED <<guild_queues, guild_current_track, connected, player, presence>>

\* The playing source runs out or fails.
PlayerEnds ==
    /\ UNCHANGED commands
    /\ Playing
    /\ BagCardinality(completions) < MaxCompletions
    /\ completions' = Spawn(completions, Ended(player, "end"))
    /\ player' = NoPlayer
    /\ reply' = NoReply
    /\ UNCHANGED <<guild_queues, guild_current_track, connected, tasks, presence>>

(***************************************************************************)
(* The commands.                                                           *)
(***************************************************************************)

\* guild_queues[guild_id].append({"url": search_query, "requester": ctx.author})
Enqueued(queue, url, requester) == Append(queue, [url |-> url, requester |-> requester])

\* A position counted from 0.
PositionFromZero(queue) == Len(queue) - 1

\* "Added to queue at position {len(guild_queues[guild_id])}"
Position(queue) == Len(queue)

\* play_yt up to its first suspending await.  get_voice_client connects when
\* the guild has no voice client.  A playing voice client makes it a queue
\* append; otherwise play_youtube_url is called and suspends in from_url.
play_yt(query, requester) ==
    LET queues == IF GUILD \in DOMAIN guild_queues
                  THEN guild_queues ELSE (GUILD :> <<>>)
    IN  /\ Received
        /\ IF Playing
           THEN /\ Len(queues[GUILD]) < MaxQueue
                /\ guild_queues' = [queues EXCEPT ![GUILD] =
                        Enqueued(@, search_query(query), requester)]
                /\ reply' = [cmd |-> "play_yt", msg |-> "Added to queue at position",
                             n |-> Position(guild_queues'[GUILD])]
                /\ UNCHANGED tasks
           ELSE /\ BagCardinality(tasks) < MaxTasks
                /\ guild_queues' = queues
                /\ tasks' = Spawn(tasks, Task(
                       <<Frame("play_yt", "play_youtube_url", "", 0),
                         Frame("play_youtube_url", "from_url", search_query(query), 0)>>,
                       TRUE))
                /\ reply' = NoReply
        /\ connected' = TRUE
        /\ UNCHANGED <<guild_current_track, player, completions, presence>>

\* play_and_notify of a station up to the await of from_probe in play_stream
\* (or, for a station without stream URL, of change_status).
play_and_notify(station) ==
    /\ Received
    /\ BagCardinality(tasks) < MaxTasks
    /\ BagCardinality(completions) < MaxCompletions
    /\ connected' = TRUE
    /\ IF Playing
       THEN /\ player' = NoPlayer
            /\ completions' = Spawn(completions, Ended(player, "play_stream"))
       ELSE UNCHANGED <<player, completions>>
    /\ tasks' = Spawn(tasks, Task(
           <<Frame("play_and_notify",
                   IF station.stream_url = "" THEN "change_status" ELSE "from_probe",
                   station.name, 0)>>, TRUE))
    /\ reply' = NoReply
    /\ UNCHANGED <<guild_queues, guild_current_track, presence>>

\* FFmpegOpusAudio.from_probe returned, or raised, in play_stream.
FromProbeReturn(t, ok) ==
    /\ UNCHANGED commands
    /\ t \in Suspended("play_and_notify", "from_probe")
    /\ IF ok
       THEN IF CanPlay(t)
            THEN /\ player' = [kind |-> "radio",
                               url |-> StationByName(Top(t).url).stream_url,
                               start |-> now]
                 /\ tasks' = Replace(tasks, t,
                        <<[Top(t) EXCEPT !.pc = "change_status", !.started = TRUE]>>)
                 /\ reply' = NoReply
            ELSE /\ tasks' = Finish(tasks, t)
                 /\ reply' = [cmd |-> "play", msg |-> "Error", n |-> 0]
                 /\ UNCHANGED player
       ELSE /\ tasks' = Replace(tasks, t, <<[Top(t) EXCEPT !.pc = "change_status"]>>)
            /\ reply' = NoReply
            /\ UNCHANGED player
    /\ UNCHANGED <<guild_queues, guild_current_track, connected, completions, presence>>

\* change_status returned, or raised, in play_and_notify.
ChangeStatusReturn(t, ok) ==
    /\ UNCHANGED commands
    /\ t \in Suspended("play_and_notify", "change_status")
    /\ presence' = IF ok THEN Top(t).url ELSE presence
    /\ reply' = [cmd |-> "play", msg |-> IF ok THEN "Now playing" ELSE "Error", n |-> 0]
    /\ tasks' = Finish(tasks, t)
    /\ UNCHANGED <<guild_queues, guild_current_track, connected, player, completions>>

\* search_radio_station_by_tags on the list `results` of the search: the
\* stations random.choice can return, none when the function returns None.
\* Here every station of the list counts as valid.
search_radio_station_by_tags_unfiltered(results) ==
    {RadioConfig(results[i].name, results[i].url_resolved) : i \in 1..Len(results)}

search_radio_station_by_tags(results) ==
    LET valid_results == SelectSeq(results, LAMBDA r : r.url_resolved # "")
    IN  IF results = <<>>
        THEN {}
        ELSE {RadioConfig(valid_results[i].name, valid_results[i].url_resolved) :
                  i \in 1..Len(valid_results)}

\* play_random_by_tags: the search, which may raise, then play_and_notify of
\* the station found.
play_random_by_tags(results, error) ==
    IF error \/ search_radio_station_by_tags(results) = {}
    THEN /\ Received
         /\ reply' = [cmd |-> "play_tags",
                      msg |-> IF error THEN "Error searching for stations"
                                       ELSE "No stations found for tags",
                      n |-> 0]
         /\ UNCHANGED <<guild_queues, guild_current_track, connected, player,
                        completions, tasks, presence>>
    ELSE \E radio_station \in search_radio_station_by_tags(results) :
             play_and_notify(radio_station)

\* skip up to the await of ctx.send.
skip ==
    /\ Received
    /\ IF ~Playing
       THEN /\ reply' = [cmd |-> "skip", msg |-> "Nothing is playing right now.", n |-> 0]
            /\ UNCHANGED tasks
       ELSE /\ BagCardinality(tasks) < MaxTasks
            /\ reply' = [cmd |-> "skip", msg |-> "Skipping", n |-> Len(Queue)]
            /\ tasks' = Spawn(tasks, Task(<<Frame("skip", "send", "", 0)>>, TRUE))
    /\ UNCHANGED <<guild_queues, guild_current_track, connected, player, completions,
                   presence>>

\* skip after ctx.send: voice_client.stop().
SkipStop(t) ==
    /\ UNCHANGED commands
    /\ t \in Suspended("skip", "send")
    /\ BagCardinality(completions) < MaxCompletions
    /\ IF t.alive /\ Playing
       THEN /\ player' = NoPlayer
            /\ completions' = Spawn(completions, Ended(player, "skip"))
       ELSE UNCHANGED <<player, completions>>
    /\ tasks' = Finish(tasks, t)
    /\ reply' = NoReply
    /\ UNCHANGED <<guild_queues, guild_current_track, connected, presence>>

\* stop up to the await of change_presence.
stop ==
    /\ Received
    /\ IF connected
       THEN /\ BagCardinality(tasks) < MaxTasks
            /\ guild_queues' = IF GUILD \in DOMAIN guild_queues
                               THEN [guild_queues EXCEPT ![GUILD] = <<>>]
                               ELSE guild_queues
            /\ guild_current_track' = EmptyDict
            /\ tasks' = Spawn(tasks, Task(<<Frame("stop", "change_presence", "", 0)>>, TRUE))
            /\ reply' = NoReply
       ELSE /\ reply' = [cmd |-> "stop", msg |-> "Not connected to a voice channel.", n |-> 0]
            /\ UNCHANGED <<guild_queues, guild_current_track, tasks>>
    /\ UNCHANGED <<connected, player, completions, presence>>

\* voice_client.disconnect(): the player is stopped and every holder of the
\* voice client is left with a disconnected one.
Disconnect(t) ==
    /\ connected' = FALSE
    /\ player' = NoPlayer
    /\ completions' = IF Playing
                      THEN Spawn(KillAll(completions), Ended(player, "disconnect"))
                      ELSE KillAll(completions)
    /\ tasks' = KillAll(Finish(tasks, t))

\* stop after change_presence: disconnect and tell the caller.  When the
\* guild has no voice client any more, or change_presence raised, the command
\* fails.
StopPresenceReturn(t, ok) ==
    /\ UNCHANGED commands
    /\ t \in Suspended("stop", "change_presence")
    /\ BagCardinality(completions) < MaxCompletions
    /\ presence' = IF ok THEN "" ELSE presence
    /\ IF ok /\ connected
       THEN /\ Disconnect(t)
            /\ reply' = [cmd |-> "stop", msg |-> "Disconnected from voice channel.", n |-> 0]
       ELSE /\ tasks' = Finish(tasks, t)
            /\ reply' = [cmd |-> "stop", msg |-> "Error", n |-> 0]
            /\ UNCHANGED <<connected, player, completions>>
    /\ UNCHANGED <<guild_queues, guild_current_track>>

\* on_voice_state_update up to the await of change_presence.  `left` says
\* that the member left the channel the bot is connected to, `members` is
\* the number of members of that channel who are not bots.
on_voice_state_update(left, members) ==
    /\ Received
    /\ IF connected /\ left /\ members = 0
       THEN /\ BagCardinality(tasks) < MaxTasks
            /\ guild_queues' = IF GUILD \in DOMAIN guild_queues
                               THEN [guild_queues EXCEPT ![GUILD] = <<>>]
                               ELSE guild_queues
            /\ guild_current_track' = EmptyDict
            /\ tasks' = Spawn(tasks,
                   Task(<<Frame("on_voice_state_update", "change_presence", "", 0)>>, TRUE))
       ELSE UNCHANGED <<guild_queues, guild_current_track, tasks>>
    /\ reply' = NoReply
    /\ UNCHANGED <<connected, player, completions, presence>>

\* on_voice_state_update after change_presence: disconnect.  When
\* change_presence raised, or the guild has no voice client any more, the
\* handler ends with the exception.
TeardownPresenceReturn(t, ok) ==
    /\ UNCHANGED commands
    /\ t \in Suspended("on_voice_state_update", "change_presence")
    /\ BagCardinality(completions) < MaxCompletions
    /\ presence' = IF ok THEN "" ELSE presence
    /\ IF ok /\ connected
       THEN Disconnect(t)
       ELSE /\ tasks' = Finish(tasks, t)
            /\ UNCHANGED <<connected, player, completions>>
    /\ reply' = NoReply
    /\ UNCHANGED <<guild_queues, guild_current_track>>

\* TickStep seconds pass: every start time moves that far into the past.  An
\* age of RETRY_WINDOW or more is kept as RETRY_WINDOW.  A callback runs
\* right after its player has ended, before the time passes.
Aged(time) == IF time - TickStep < -RETRY_WINDOW THEN -RETRY_WINDOW ELSE time - TickStep

Tick ==
    /\ UNCHANGED commands
    /\ completions = EmptyBag
    /\ guild_current_track' =
           [g \in DOMAIN guild_current_track |->
               [guild_current_track[g] EXCEPT !.start_time = Aged(@)]]
    /\ player' = IF Playing THEN [player EXCEPT !.start = Aged(@)] ELSE player
    /\ guild_current_track' # guild_current_track \/ player' # player
    /\ reply' = NoReply
    /\ UNCHANGED <<guild_queues, connected, completions, tasks, presence>>

(***************************************************************************)
(* The specification.                                                      *)
(***************************************************************************)
Init ==
    /\ guild_queues = EmptyDict
    /\ guild_current_track = EmptyDict
    /\ connected = FALSE
    /\ player = NoPlayer
    /\ completions = EmptyBag
    /\ tasks = EmptyBag
    /\ presence = ""
    /\ reply = NoReply
    /\ commands = 0

AllTasks == BagToSet(tasks)

\* On-demand playback: play_yt, the coroutines it starts and the callbacks of
\* its players.
OnDemand ==
    \/ \E q \in Queries, r \in Requesters : play_yt(q, r)
    \/ \E t \in AllTasks, ok \in BOOLEAN : FromUrlReturn(t, ok)
    \/ \E t \in AllTasks, ok \in BOOLEAN : PlayPresenceReturn(t, ok)
    \/ \E t \in AllTasks : NextInQueueStart(t)
    \/ \E t \in AllTasks, ok \in BOOLEAN : IdlePresenceReturn(t, ok)
    \/ \E c \in BagToSet(completions), error \in BOOLEAN : AfterPlaying(c, error)
    \/ PlayerEnds
    \/ Tick

Skipping ==
    \/ skip
    \/ \E t \in AllTasks : SkipStop(t)

Stations ==
    \/ \E s \in known_radio_streams : play_and_notify(s)
    \/ \E t \in AllTasks, ok \in BOOLEAN : FromProbeReturn(t, ok)
    \/ \E t \in AllTasks, ok \in BOOLEAN : ChangeStatusReturn(t, ok)

Stopping ==
    \/ stop
    \/ \E t \in AllTasks, ok \in BOOLEAN : StopPresenceReturn(t, ok)

\* The members of the voice channel change.
MaxMembers == 1

Membership ==
    \/ \E left \in BOOLEAN, members \in 0..MaxMembers : on_voice_state_update(left, members)
    \/ \E t \in AllTasks, ok \in BOOLEAN : TeardownPresenceReturn(t, ok)

Tags ==
    \E results \in SearchResults, error \in BOOLEAN : play_random_by_tags(results, error)

Next == OnDemand \/ Skipping \/ Stations \/ Stopping \/ Membership \/ Tags

Spec == Init /\ [][Next]_vars

\* Sessions in which only some of the commands are used.
SpecOnDemand == Init /\ [][OnDemand]_vars
SpecSkip == Init /\ [][OnDemand \/ Skipping]_vars
SpecStations == Init /\ [][OnDemand \/ Stations]_vars
SpecStop == Init /\ [][OnDemand \/ Stopping]_vars
SpecTeardown == Init /\ [][OnDemand \/ Membership]_vars

\* Sessions in which only stations are played, by name or by tags.
RadioOnly ==
    \/ Tags
    \/ Stations
    \/ \E c \in BagToSet(completions), error \in BOOLEAN : AfterPlaying(c, error)
    \/ PlayerEnds
    \/ Tick

SpecTags == Init /\ [][RadioOnly]_vars

\* The schedules in which the operations on the session do not overlap: a
\* command arrives, and a player ends, only when no coroutine is suspended or
\* scheduled and no callback is due.
Quiet == tasks = EmptyBag /\ completions = EmptyBag

Serial ==
    \/ \E q \in Queries, r \in Requesters : Quiet /\ play_yt(q, r)
    \/ \E t \in AllTasks, ok \in BOOLEAN : FromUrlReturn(t, ok)
    \/ \E t \in AllTasks, ok \in BOOLEAN : PlayPresenceReturn(t, ok)
    \/ \E t \in AllTasks : NextInQueueStart(t)
    \/ \E t \in AllTasks, ok \in BOOLEAN : IdlePresenceReturn(t, ok)
    \/ \E c \in BagToSet(completions), error \in BOOLEAN : AfterPlaying(c, error)
    \/ Quiet /\ PlayerEnds
    \/ Tick

SpecSerial == Init /\ [][Serial]_vars

\* The same schedules with station selection.
SerialStations ==
    \/ \E s \in known_radio_streams : Quiet /\ play_and_notify(s)
    \/ \E t \in AllTasks, ok \in BOOLEAN : FromProbeReturn(t, ok)
    \/ \E t \in AllTasks, ok \in BOOLEAN : ChangeStatusReturn(t, ok)

SpecSerialStations == Init /\ [][Serial \/ SerialStations]_vars

\* What the event loop and the player's thread do by themselves: a suspended
\* coroutine is resumed when what it awaits returns or raises, a scheduled
\* coroutine is started, and the `after` callback of an ended player is run.
EventLoop ==
    \/ \E t \in AllTasks, ok \in BOOLEAN : FromUrlReturn(t, ok)
    \/ \E t \in AllTasks, ok \in BOOLEAN : PlayPresenceReturn(t, ok)
    \/ \E t \in AllTasks : NextInQueueStart(t)
    \/ \E t \in AllTasks, ok \in BOOLEAN : IdlePresenceReturn(t, ok)
    \/ \E c \in BagToSet(completions), error \in BOOLEAN : AfterPlaying(c, error)
    \/ \E t \in AllTasks, ok \in BOOLEAN : FromProbeReturn(t, ok)
    \/ \E t \in AllTasks, ok \in BOOLEAN : ChangeStatusReturn(t, ok)

\* The schedules without overlap in which the event loop keeps running;
\* nothing obliges a user to send a command, or a stream to end.
FairSerialStations == SpecSerialStations /\ WF_vars(EventLoop)

(***************************************************************************)
(* Properties.                                                             *)
(***************************************************************************)
Track == guild_current_track[GUILD]
Idle == ~Playing /\ ~HasTrack /\ Queue = <<>>

\* The callback of the ended player c runs in this step.
Handled(c) == c \in BagToSet(completions) /\ completions' = Finish(completions, c)

\* What a callback can schedule: a retry, or an advance.
Retry(url, retry_count, alive) ==
    Task(<<Frame("play_youtube_url", "from_url", url, retry_count)>>, alive)
Advance(alive) == Task(<<Frame("play_next_in_queue", "start", "", 0)>>, alive)

\* The wall-clock time the ended player c played.
Elapsed(c) == now - c.start

\* C1: the completion of a stream that was stopped by a newer start, a skip or
\* a stop is ignored: handling it schedules neither a retry nor an advance and
\* leaves current_track and the queue as they are.
C1_StaleCompletionIgnored ==
    [][\A c \in BagToSet(completions) :
          (Handled(c) /\ c.by # "end")
              => /\ tasks' = tasks
                 /\ UNCHANGED <<guild_current_track, guild_queues>>]_vars

\* C2: the completion of a skipped track always schedules the advance (the
\* queue head is popped and started, or the session goes idle), never a retry
\* of the skipped track, whatever its elapsed time and retry_count.
C2_SkipAdvances ==
    [][\A c \in BagToSet(completions) :
          (Handled(c) /\ c.by = "skip") => tasks' = Spawn(tasks, Advance(c.alive))]_vars

\* C3: when the playing track ends by itself (with or without an error) after
\* less than RETRY_WINDOW seconds and current_track.retry_count is below
\* MAX_RETRIES, the source of the track that ended is restarted with
\* retry_count one higher, and the queue is left alone.
C3_RetrySameSource ==
    [][\A c \in BagToSet(completions) :
          (/\ Handled(c)
           /\ c.kind = "yt" /\ c.by = "end"
           /\ HasTrack
           /\ Elapsed(c) < RETRY_WINDOW
           /\ Track.retry_count < MAX_RETRIES)
              => /\ tasks' = Spawn(tasks, Retry(c.url, Track.retry_count + 1, c.alive))
                 /\ UNCHANGED guild_queues]_vars

\* C4: retry_count stays within 0..MAX_RETRIES, and a completion that arrives
\* with retry_count = MAX_RETRIES, or after RETRY_WINDOW seconds or more of
\* playing, is not retried: the advance is scheduled.
C4_NoFourthRetry ==
    [][/\ HasTrack' => Track'.retry_count \in 0..MAX_RETRIES
       /\ \A c \in BagToSet(completions) :
             (/\ Handled(c)
              /\ c.kind = "yt"
              /\ HasTrack
              /\ Track.retry_count = MAX_RETRIES \/ Elapsed(c) >= RETRY_WINDOW)
                 => tasks' = Spawn(tasks, Advance(c.alive))]_vars

\* current_track gets another source or another retry_count in this step.
TrackWritten ==
    /\ HasTrack'
    /\ \/ ~HasTrack
       \/ Track'.url # Track.url
       \/ Track'.retry_count # Track.retry_count

\* C5 as claimed: every change of current_track keeps source_ref and adds one
\* to retry_count, or changes source_ref and sets retry_count to 0.
C5_RetryCountBySource ==
    [][TrackWritten =>
          IF HasTrack /\ Track'.url = Track.url
          THEN Track'.retry_count = Track.retry_count + 1
          ELSE Track'.retry_count = 0]_vars

\* C5 as amended: every write of current_track stores retry_count 0 (a fresh
\* start: a user's play or an advance, also of the source that was current),
\* unless a retry makes it; a retry is scheduled by the callback with the
\* source current_track held then and a retry_count one higher than it held
\* then, at most MAX_RETRIES, and its write stores exactly those.
C5_RetryCountByWrite ==
    [][/\ TrackWritten =>
             \/ Track'.retry_count = 0
             \/ \E t \in BagToSet(tasks) :
                    t.stack = <<Frame("play_youtube_url", "from_url",
                                      Track'.url, Track'.retry_count)>>
       /\ \A t \in BagToSet(tasks') :
             \A i \in 1..Len(t.stack) :
                 t.stack[i].retry_count # 0 =>
                     /\ Len(t.stack) = 1
                     /\ t.stack[i].fn = "play_youtube_url"
                     /\ t.stack[i].retry_count \in 1..MAX_RETRIES
       /\ \A t \in BagToSet(tasks') :
             (/\ tasks' = Spawn(tasks, t)
              /\ Len(t.stack) = 1
              /\ Top(t).fn = "play_youtube_url")
                 => /\ HasTrack
                    /\ Top(t).url = Track.url
                    /\ Top(t).retry_count = Track.retry_count + 1]_vars

\* A retry has restarted the source it was scheduled for, a second time.
C5_Witness ==
    /\ HasTrack /\ Track.retry_count = 2
    /\ Playing /\ player.url = Track.url

\* C6: play_yt on an idle session calls play_youtube_url for the requested
\* source at once and leaves the queue empty; play_yt while something plays
\* leaves the player and current_track alone, appends the one entry
\* {source, requester} at the tail of the queue and reports the new length of
\* the queue as the 1-based position.
C6_EnqueueOrStart ==
    [][\A q \in Queries, r \in Requesters :
          play_yt(q, r) =>
              IF Playing
              THEN /\ Queue' = Queue \o <<[url |-> search_query(q), requester |-> r]>>
                   /\ reply' = [cmd |-> "play_yt", msg |-> "Added to queue at position",
                                n |-> Len(Queue) + 1]
                   /\ UNCHANGED <<player, guild_current_track, tasks>>
              ELSE /\ Queue' = Queue
                   /\ Idle => Queue' = <<>>
                   /\ \E t \in BagToSet(tasks') :
                         /\ tasks' = Spawn(tasks, t)
                         /\ Len(t.stack) = 2
                         /\ t.stack[1].fn = "play_yt"
                         /\ Top(t) = Frame("play_youtube_url", "from_url",
                                           search_query(q), 0)
                   /\ UNCHANGED <<player, guild_current_track>>]_vars

\* A second entry was appended while a track plays, and position 2 reported.
C6_Witness ==
    /\ Playing
    /\ Len(Queue) = 2
    /\ reply = [cmd |-> "play_yt", msg |-> "Added to queue at position", n |-> 2]

\* C7: when stop has answered, the session is idle: the queue is empty, there
\* is no current_track and nothing plays.
C7_StopYieldsIdle ==
    [][(reply'.cmd = "stop" /\ reply'.msg # "Error")
          => /\ Queue' = <<>>
             /\ ~HasTrack'
             /\ ~Playing']_vars

\* C8: selecting a station while a track plays stops the track and leaves the
\* queue as it is, and the completion of the stopped track schedules neither
\* an advance, which would pop an entry, nor a retry, which would restart it.
C8_PlayImmediateKeepsQueue ==
    [][/\ \A s \in known_radio_streams :
             (play_and_notify(s) /\ Playing) => (~Playing' /\ Queue' = Queue)
       /\ \A c \in BagToSet(completions) :
             (Handled(c) /\ c.by = "play_stream") => tasks' = tasks]_vars

\* C9: a start that failed is surfaced: play_and_notify does not answer "Now
\* playing" when play_stream started nothing, and after play_yt has answered
\* with an error and nothing plays there is no current_track.
C9_FailedStartSurfaced ==
    [][/\ \A t \in Suspended("play_and_notify", "change_status") :
             (tasks' = Finish(tasks, t) /\ ~Top(t).started)
                 => reply'.msg # "Now playing"
       /\ (reply'.cmd = "play_yt" /\ reply'.msg = "An error occurred" /\ ~Playing')
             => ~HasTrack']_vars

\* C10: in an advance, a head entry that fails to resolve is skipped and the
\* next one is tried; once an entry has resolved and been started (its
\* play_youtube_url returns), the entries behind it stay in the queue.
C10_EntriesBehindRemain ==
    [][\A t \in BagToSet(tasks) :
          (/\ t.stack[1].fn = "play_next_in_queue"
           /\ PlayPresenceReturn(t, TRUE))
              => Queue' = Queue]_vars

\* The coroutine t is a completion-driven advance: after_playing scheduled
\* its play_next_in_queue.
IsAdvance(t) == t.stack[1].fn = "play_next_in_queue"

\* The coroutine t runs in this step and goes on as u, suspended in the
\* resolution of another source.
Attempts(t, u) ==
    /\ t \in BagToSet(tasks)
    /\ tasks' = Spawn(Finish(tasks, t), u)
    /\ u # t
    /\ Top(u).fn = "play_youtube_url" /\ Top(u).pc = "from_url"

\* C11: an advance makes one resolve/start attempt per entry it pops, so at
\* most as many as the queue holds; on an empty queue it attempts nothing
\* more; and when it ends, an entry plays or the session is idle with an
\* empty queue.
C11_AdvanceBounded ==
    [][\A t \in BagToSet(tasks) :
          IsAdvance(t) =>
              /\ \A u \in BagToSet(tasks') :
                     Attempts(t, u) => (Queue # <<>> /\ Queue' = Tail(Queue))
              /\ tasks' = Finish(tasks, t) => (Playing' \/ Idle')]_vars

\* The queue that coroutine t leaves behind when its top frame returns
\* (raised = FALSE) or raises.
QueueAfter(t, raised) ==
    IF Unwind(Callers(t), raised).call /\ Queue # <<>> THEN Tail(Queue) ELSE Queue

\* C12: a presence update that raises changes no playback decision: the
\* step ends with the player, current_track and the queue that the step of
\* the successful update ends with, in play_youtube_url, in
\* play_next_in_queue and in stop, where the disconnect still happens.
C12_PresenceFailureHarmless ==
    [][/\ \A t \in Suspended("play_youtube_url", "change_presence") :
             PlayPresenceReturn(t, FALSE)
                 => /\ Queue' = QueueAfter(t, FALSE)
                    /\ UNCHANGED <<guild_current_track, player>>
       /\ \A t \in Suspended("play_next_in_queue", "change_presence") :
             IdlePresenceReturn(t, FALSE)
                 => /\ Queue' = QueueAfter(t, FALSE)
                    /\ UNCHANGED <<guild_current_track, player>>
       /\ \A t \in Suspended("stop", "change_presence") :
             (StopPresenceReturn(t, FALSE) /\ connected)
                 => (~connected' /\ ~Playing' /\ UNCHANGED guild_queues)]_vars

\* C13: when on_voice_state_update has ended for a member who left the
\* bot's channel with no member left who is not a bot, the queue is empty,
\* current_track is removed, the presence is cleared and the bot is
\* disconnected; for any other membership change the session is left as it
\* is.
C13_TeardownOnEmptyChannel ==
    [][/\ \A t \in BagToSet(tasks) :
             (Top(t).fn = "on_voice_state_update" /\ t \notin BagToSet(tasks'))
                 => /\ Queue' = <<>>
                    /\ ~HasTrack'
                    /\ presence' = ""
                    /\ ~connected' /\ ~Playing'
       /\ \A left \in BOOLEAN, members \in 0..MaxMembers :
             (on_voice_state_update(left, members) /\ ~(left /\ members = 0))
                 => UNCHANGED <<guild_queues, guild_current_track, connected, player,
                                completions, tasks, presence>>]_vars

\* The coroutine t is a play_yt command in the resolution of its source.
IsPlayRequest(t) ==
    /\ Len(t.stack) = 2
    /\ t.stack[1].fn = "play_yt"
    /\ Top(t).fn = "play_youtube_url" /\ Top(t).pc = "from_url"

\* The coroutine t is a play_yt command whose source failed to resolve.
IsFailedRequest(t) ==
    /\ Len(t.stack) >= 2
    /\ t.stack[1].fn = "play_yt"
    /\ t.stack[2] = Frame("play_youtube_url", "play_next_in_queue", "", 0)

\* C14: when the resolution of a play_yt request fails, the queue and
\* current_track stay what they were, and the command ends by reporting
\* the error to its caller.
C14_ResolutionErrorReported ==
    [][/\ \A t \in BagToSet(tasks) :
             (IsPlayRequest(t) /\ FromUrlReturn(t, FALSE))
                 => UNCHANGED <<guild_queues, guild_current_track>>
       /\ \A t \in BagToSet(tasks) :
             (IsFailedRequest(t) /\ tasks' = Finish(tasks, t))
                 => reply' = [cmd |-> "play_yt", msg |-> "An error occurred", n |-> 0]]_vars

\* The stations of the list that have a resolved URL.
Usable(results) == {results[i] : i \in {j \in 1..Len(results) : results[j].url_resolved # ""}}

\* C15: the station that play_random_by_tags goes on to play is one of the
\* stations of the search result that have a non-empty resolved URL, and it
\* is played from that URL; when the result has no such station, or is
\* empty, no station is played and "No stations found" is the answer.
C15_TagSearchSelectsUsable ==
    [][\A results \in SearchResults :
          play_random_by_tags(results, FALSE) =>
              IF Usable(results) = {}
              THEN /\ reply' = [cmd |-> "play_tags", msg |-> "No stations found for tags",
                                n |-> 0]
                   /\ UNCHANGED <<tasks, player>>
              ELSE \E r \in Usable(results) :
                       /\ tasks' = Spawn(tasks,
                              Task(<<Frame("play_and_notify", "from_probe", r.name, 0)>>, TRUE))
                       /\ StationByName(r.name).stream_url = r.url_resolved]_vars

\* A station found by its tags plays from its resolved URL.
C15_Witness ==
    /\ player.kind = "radio"
    /\ \E r \in Candidates : r.url_resolved # "" /\ player.url = r.url_resolved

\* The coroutine t is a completion-driven decision, a retry or an advance,
\* that has not yet started playback or found the queue empty.
IsPendingDecision(t) ==
    /\ IsAdvance(t) \/ (Len(t.stack) = 1 /\ Top(t).fn = "play_youtube_url")
    /\ Top(t).pc \in {"start", "from_url"}

\* The coroutine t is suspended in a resolve or transport-start call.
InFlight(t) == Top(t).pc \in {"from_url", "from_probe"}

\* The queue or current_track is modified in this step.
Modified ==
    \/ guild_queues' # guild_queues
    \/ TrackWritten
    \/ HasTrack /\ ~HasTrack'

\* C16: at most one completion-driven decision is in progress, and nothing
\* modifies current_track or the queue while an operation other than the
\* one taking the step is suspended in a resolve or transport-start call.
C16_OperationsSerialized ==
    [][/\ \A t, u \in BagToSet(tasks') :
             (IsPendingDecision(t) /\ IsPendingDecision(u))
                 => (t = u /\ CopiesIn(t, tasks') = 1)
       /\ \A u \in BagToSet(tasks) :
             (/\ InFlight(u)
              /\ CopiesIn(u, tasks') >= CopiesIn(u, tasks)
              /\ \A ok \in BOOLEAN : ~FromUrlReturn(u, ok) /\ ~FromProbeReturn(u, ok))
                 => ~Modified]_vars

\* C17: whenever a stream plays, current_track is set and names the source
\* of that stream.
C17_TrackIsPlayingStream == Playing => (HasTrack /\ Track.url = player.url)

\* A completion waits for its decision, or the decision is in progress.
DecisionPending ==
    \/ completions # EmptyBag
    \/ \E t \in BagToSet(tasks) : IsPendingDecision(t)

\* C18: current_track is present exactly when something plays or a decision
\* is pending; in an idle session, with nothing playing and no operation in
\* progress, it is absent.
C18_TrackIffActive ==
    /\ (Playing \/ DecisionPending) => HasTrack
    /\ HasTrack => (Playing \/ ~Quiet)

\* A coroutine that is about to write current_track: play_youtube_url
\* suspended in the resolution of its source.
WritesNext(t) == Top(t).fn = "play_youtube_url" /\ Top(t).pc = "from_url"

\* C19: in every step in which the player is started, whether for a station,
\* an on-demand play, a retry or an advance, current_track has been set to
\* the track that is started; and no two paths are on their way to write
\* current_track at the same time.
C19_TrackSetBeforeStart ==
    [][/\ (~Playing /\ Playing') => (HasTrack' /\ Track'.url = player'.url)
       /\ \A t, u \in BagToSet(tasks') :
             (WritesNext(t) /\ WritesNext(u)) => (t = u /\ CopiesIn(t, tasks') = 1)]_vars

\* The entry of coroutine t is started in this step.
StartsEntry(t) == IsQueued(t) /\ FromUrlReturn(t, TRUE) /\ CanPlay(t)

NotRetried(c) == ~(c.kind = "yt" /\ HasTrack /\ ShouldRetry(Track, now))

\* The head of the queue was popped and is being resolved.
HeadPopped == \E t \in BagToSet(tasks) : IsQueued(t)

\* C21: when the playing stream has run out, failed or was skipped, whatever
\* its kind, its completion is not retried and the queue is not empty, the
\* head of the queue is eventually popped to be started.
C21_CompletionAdvancesQueue ==
    (\E c \in BagToSet(completions) :
        c.by \in {"end", "skip"} /\ NotRetried(c) /\ Queue # <<>>) ~> HeadPopped

\* The coroutine t was suspended in a resolution when stop or
\* on_voice_state_update disconnected the voice client it holds.
IsDefunct(t) == ~t.alive /\ WritesNext(t)

\* C22: an operation that was suspended in its resolution when the session
\* was stopped or torn down starts no playback, pops no queue entry and
\* writes no current track when it resumes.
C22_DefunctOperationHarmless ==
    [][\A t \in BagToSet(tasks) :
          (IsDefunct(t) /\ \E ok \in BOOLEAN : FromUrlReturn(t, ok))
              => UNCHANGED <<guild_queues, guild_current_track, player>>]_vars

====
